---- MODULE Spec2Model ----
(***************************************************************************)
(* The lexer of newlang (src/src/lexer.rs) as a state machine.             *)
(*                                                                         *)
(* A source text is a sequence of characters; a character is a string of   *)
(* length one, except the two non-ASCII characters "U+00E9" (e with acute, *)
(* two bytes in UTF-8, not whitespace) and "U+00A0" (no-break space, two   *)
(* bytes in UTF-8, whitespace).  Indices are 0-based as in the code: the   *)
(* character at cursor i is source[i + 1].                                 *)
(*                                                                         *)
(* One step of the machine is one iteration of the outer `while let` loop  *)
(* of Lexer::lex_tokens, or the push of the EOF token that follows it.     *)
(***************************************************************************)
EXTENDS Integers, Sequences, FiniteSets, TLC

VARIABLES
    source, index, had_error, tokens, reports, pc,  \* the lexer and the sink
    span_a, span_b, span_out,                       \* a call of Span::extend
    parser,                                         \* the Parser and its result
    driver                                          \* main and interpret

lexer_vars == <<source, index, had_error, tokens, reports, pc>>

\* What the lexer never touches.
beside_lexer == <<span_a, span_b, span_out, parser, driver>>

vars == <<source, index, had_error, tokens, reports, pc,
          span_a, span_b, span_out, parser, driver>>

(***************************************************************************)
(* Bounds of the model and the inputs it explores.                         *)
(***************************************************************************)
MaxLen == 3
MaxCommentLen == 6
MaxNumLen == 4
MaxIdentLen == 4

Alphabet == {" ", "\n", "x", "o", "g", "F", "0", "8", ".", "/", "*", ";", "=", "@", "_", "U+00E9"}
CommentAlphabet == {"/", "*", " ", "\n"}
NumAlphabet == {"0", "1", "2", ".", "b", "_"}
IdentAlphabet == {"l", "e", "t", "x", "_", "9", "Z"}

SeqsUpTo(A, n) == UNION {[1..k -> A] : k \in 0..n}

Examples ==
    { <<"l","e","t"," ","x"," ","="," ","5",";">>,
      <<"0","b","0","1","2">>,
      <<"0","x","1","F">>,
      <<"1","2",".","5",".","6">>,
      <<"1","2",".","5">>,
      <<"1","_","2","_","3">>,
      <<"/","*"," ","a"," ","/","*"," ","b"," ","*","/"," ","c"," ","*","/">>,
      <<"/","*"," ","/","*","*","/","*","/">>,
      <<"/","*","*","/","/","*","*","/">>,
      <<"/","*"," ","u","n","t","e","r","m","i","n","a","t","e","d">>,
      <<"/","*","*","/","@">>,
      <<"/","*","*","/",";">>,
      <<"/","*"," ","c"," ","*","/","x">>,
      <<"U+00E9","a",";">>,
      <<"U+00A0","x">>,
      <<"@">> }

Inputs ==
    SeqsUpTo(Alphabet, MaxLen) \cup SeqsUpTo(CommentAlphabet, MaxCommentLen)
        \cup SeqsUpTo(NumAlphabet, MaxNumLen) \cup SeqsUpTo(IdentAlphabet, MaxIdentLen)
        \cup Examples

(***************************************************************************)
(* Characters.                                                             *)
(***************************************************************************)
None == "None"

LowerSeq == <<"a","b","c","d","e","f","g","h","i","j","k","l","m",
              "n","o","p","q","r","s","t","u","v","w","x","y","z">>
UpperSeq == <<"A","B","C","D","E","F","G","H","I","J","K","L","M",
              "N","O","P","Q","R","S","T","U","V","W","X","Y","Z">>
DigitSeq == <<"0","1","2","3","4","5","6","7","8","9">>

Range(s) == {s[i] : i \in DOMAIN s}

AsciiLower == Range(LowerSeq)
AsciiUpper == Range(UpperSeq)
AsciiDigit == Range(DigitSeq)

\* char::is_whitespace, on the characters of the model
is_whitespace(c) == c \in {" ", "\t", "\n", "\r", "U+00A0"}

\* char::to_ascii_lowercase
to_ascii_lowercase(c) ==
    IF c \in AsciiUpper
    THEN LowerSeq[CHOOSE i \in DOMAIN UpperSeq : UpperSeq[i] = c]
    ELSE c

\* char::len_utf8, on the characters of the model
len_utf8(c) == IF c \in {"U+00E9", "U+00A0"} THEN 2 ELSE 1

(***************************************************************************)
(* Span (src/src/span.rs).                                                 *)
(***************************************************************************)
Span_new(start, end) == [start |-> start, end |-> end]

Span_location(i) == Span_new(i, i)

(***************************************************************************)
(* Token (src/src/token.rs).                                               *)
(***************************************************************************)
Token_new(kind, span, text) ==
    [kind |-> kind, span |-> span, text |-> text, newline_before |-> FALSE]

(***************************************************************************)
(* ErrorReport (src/src/error.rs) and ariadne's Label.                     *)
(* The struct keeps the title; kind and message are kept beside it so that *)
(* properties can name them.                                               *)
(***************************************************************************)
ErrorReport_new(kind, span, message) ==
    [kind    |-> kind,
     message |-> message,
     span    |-> span,
     title   |-> IF kind # "Custom" THEN kind \o ": " \o message ELSE message,
     labels  |-> <<>>]

Label_new(span, message, color, order) ==
    [span |-> span, message |-> message, color |-> color, order |-> order]

with_label(report, label) == [report EXCEPT !.labels = Append(@, label)]

(***************************************************************************)
(* The lexer.  L is the lexer object: [index, had_error, tokens, reports,  *)
(* panicked]; panicked records that the thread has unwound out of          *)
(* lex_tokens.                                                             *)
(***************************************************************************)
Self ==
    [index |-> index, had_error |-> had_error, tokens |-> tokens,
     reports |-> reports, panicked |-> FALSE]

CharAt(i) == IF i < Len(source) THEN source[i + 1] ELSE None

current(L) == CharAt(L.index)

peek(L, offset) == CharAt(L.index + offset)

span(start, end) == Span_new(start, end)

span_at(i) == Span_location(i)

\* span_from with the end on the last character passed, as the identifier
\* branch computes its span.
span_from_inclusive(L, from) == Span_new(from, L.index - 1)

span_from(L, from) == Span_new(from, L.index)

advance(L) ==
    IF current(L) # None THEN [L EXCEPT !.index = @ + 1] ELSE L

\* push that inserts at the front of the vector.
push_front(L, token) == [L EXCEPT !.tokens = <<token>> \o @]

push(L, token) == [L EXCEPT !.tokens = Append(@, token)]

\* The byte offset of the k-th character boundary of source (k in 0..Len).
RECURSIVE ByteOffset(_)
ByteOffset(k) == IF k = 0 THEN 0 ELSE ByteOffset(k - 1) + len_utf8(source[k])

\* str::is_char_boundary
is_char_boundary(b) == \E k \in 0..Len(source) : ByteOffset(k) = b

CharsBefore(b) == CHOOSE k \in 0..Len(source) : ByteOffset(k) = b

RECURSIVE Concat(_)
Concat(s) == IF s = <<>> THEN "" ELSE Head(s) \o Concat(Tail(s))

\* &source[from..to]: the bytes from..to of source; defined when both are
\* character boundaries.
SliceOk(from, to) == from <= to /\ is_char_boundary(from) /\ is_char_boundary(to)

Slice(from, to) == Concat(SubSeq(source, CharsBefore(from) + 1, CharsBefore(to)))

RECURSIVE advance_n(_, _)
advance_n(L, n) == IF n = 0 THEN L ELSE advance_n(advance(L), n - 1)

push_simple(L, kind, length) ==
    LET start == L.index
    IN  IF ~SliceOk(L.index, L.index + length)
        THEN [L EXCEPT !.panicked = TRUE]
        ELSE LET text == Slice(L.index, L.index + length)
                 A    == advance_n(L, length)
             IN  push(A, Token_new(kind, span_from(A, start), text))

\* push_report without the assignment to had_error.
push_report_unflagged(L, report) ==
    [L EXCEPT !.reports = Append(@, report)]

\* push_report that inserts at the front of the sink.
push_report_front(L, report) ==
    [L EXCEPT !.reports = <<report>> \o @, !.had_error = TRUE]

push_report(L, report) ==
    [L EXCEPT !.reports = Append(@, report), !.had_error = TRUE]

(***************************************************************************)
(* lex_integer                                                             *)
(***************************************************************************)
IsDigitOf(base, lc) ==
    \/ base = "Bin" /\ lc \in {"0", "1"}
    \/ base = "Oct" /\ lc \in {"0", "1", "2", "3", "4", "5", "6", "7"}
    \/ base = "Dec" /\ lc \in AsciiDigit
    \/ base = "Hex" /\ lc \in AsciiDigit \cup {"a", "b", "c", "d", "e", "f"}

Base_to_string(base) ==
    CASE base = "Bin" -> "Binary"
      [] base = "Oct" -> "Octal"
      [] base = "Dec" -> "Decimal"
      [] base = "Hex" -> "Hexadecimal"

\* The conversion with every base mapped to the decimal kind.
TokenKind_from_dec(base) == "IntegerLiteralDec"

TokenKind_from(base) ==
    CASE base = "Bin" -> "IntegerLiteralBin"
      [] base = "Oct" -> "IntegerLiteralOct"
      [] base = "Dec" -> "IntegerLiteralDec"
      [] base = "Hex" -> "IntegerLiteralHex"

\* The report of lex_integer without its second with_label.
InvalidIntegerReport_one_label(L, base, start) ==
    LET sp == span_from(L, start)
    IN  with_label(
            ErrorReport_new("SyntaxError", sp, "Invalid Integer Literal"),
            Label_new(sp, Base_to_string(base) \o " integer literal", "BrightBlue", 1))

InvalidIntegerReport(L, base, start) ==
    LET sp == span_from(L, start)
    IN  with_label(
            with_label(
                ErrorReport_new("SyntaxError", sp, "Invalid Integer Literal"),
                Label_new(sp, Base_to_string(base) \o " integer literal", "BrightBlue", 1)),
            Label_new(span_at(L.index), "Invalid character", "Red", 0))

\* The error arm with the self.advance() that the code has commented out.
lex_integer_err_advance(L) == advance(L)

\* What the error arm does to the cursor before it returns Err(()).
lex_integer_err_cursor(L) == L

\* The result: [L, buf, ok], ok = FALSE for Err(()).
RECURSIVE lex_integer(_, _, _, _)
lex_integer(L, buf, base, start) ==
    LET char == current(L)
        lc   == to_ascii_lowercase(char)
    IN  IF char = None
        THEN [L |-> L, buf |-> buf, ok |-> TRUE]
        ELSE IF IsDigitOf(base, lc)
        THEN lex_integer(advance(L), buf \o char, base, start)
        ELSE IF lc \in AsciiDigit \cup AsciiLower
        THEN [L   |-> lex_integer_err_cursor(
                          push_report(L, InvalidIntegerReport(L, base, start))),
              buf |-> buf, ok |-> FALSE]
        ELSE IF lc = "_"
        THEN lex_integer(advance(L), buf, base, start)
        ELSE [L |-> L, buf |-> buf, ok |-> TRUE]

(***************************************************************************)
(* The branches of the match in lex_tokens.                                *)
(***************************************************************************)
IsIdentStart(c) == c \in AsciiLower \cup AsciiUpper \cup {"_"}

IsIdentPart(c) == c \in AsciiLower \cup AsciiUpper \cup AsciiDigit \cup {"_"}

\* The inner loop of the identifier branch: [L, ident].
RECURSIVE ident_loop(_, _)
ident_loop(L, ident) ==
    IF current(L) # None /\ IsIdentPart(current(L))
    THEN ident_loop(advance(L), ident \o current(L))
    ELSE [L |-> L, ident |-> ident]

\* The keyword table matching on a prefix instead of the whole text.
keyword_kind_prefix(ident) ==
    IF Len(ident) >= 3 /\ SubSeq(ident, 1, 3) = "let" THEN "Let" ELSE "Identifier"

\* The keyword table with every word lexed as a string literal.
keyword_kind_string(ident) == "StringLiteral"

keyword_kind(ident) == IF ident = "let" THEN "Let" ELSE "Identifier"

ident_span(L, start) == span(start, L.index - 1)

lex_identifier(L, start) ==
    LET r == ident_loop(L, "")
    IN  push(r.L, Token_new(keyword_kind(r.ident), ident_span(r.L, start), r.ident))

IsBasePrefix(L) == current(L) = "0" /\ peek(L, 1) \in {"b", "o", "x"}

base_of(c) ==
    CASE c = "b" -> "Bin"
      [] c = "o" -> "Oct"
      [] c = "x" -> "Hex"

lex_based(L, start) ==
    LET base == base_of(peek(L, 1))
        r    == lex_integer(advance(advance(L)), "", base, start)
    IN  IF ~r.ok THEN r.L
        ELSE push(r.L, Token_new(TokenKind_from(base), span_from(r.L, start), r.buf))

InvalidFloatReport(L, start) ==
    with_label(
        ErrorReport_new("SyntaxError", span_from(L, start), "Invalid Float Literal"),
        Label_new(span_at(L.index), "Second fractional indicator", "Red", 0))

\* After the `.` of a float has been pushed to buf and passed: the
\* fractional body, the check for a second `.`, the FloatLiteral token.
lex_fraction(L, buf, start) ==
    LET r == lex_integer(L, buf, "Dec", start)
    IN  IF ~r.ok THEN r.L
        ELSE IF current(r.L) = "."
        THEN push_report(r.L, InvalidFloatReport(r.L, start))
        ELSE push(r.L, Token_new("FloatLiteral", span_from(r.L, start), r.buf))

\* The decimal branch without its look at a following `.`.
lex_decimal_no_fraction(L, start) ==
    LET r == lex_integer(L, "", "Dec", start)
    IN  IF ~r.ok THEN r.L
        ELSE push(r.L, Token_new("IntegerLiteralDec", span_from(r.L, start), r.buf))

lex_decimal(L, start) ==
    LET r == lex_integer(L, "", "Dec", start)
    IN  IF ~r.ok THEN r.L
        ELSE IF current(r.L) = "."
        THEN lex_fraction(advance(r.L), r.buf \o ".", start)
        ELSE push(r.L, Token_new("IntegerLiteralDec", span_from(r.L, start), r.buf))

lex_period(L, start) ==
    IF peek(L, 1) \in AsciiDigit
    THEN lex_fraction(advance(L), ".", start)
    ELSE push_simple(L, "Period", 1)

RECURSIVE line_comment(_)
line_comment(L) ==
    IF current(L) # None /\ current(L) # "\n"
    THEN line_comment(advance(L))
    ELSE L

UnterminatedReport(L, start) ==
    with_label(
        ErrorReport_new("SyntaxError", span_from(L, start), "Unterminated Multi-Line Comment"),
        Label_new(span(start, start + 2), "Comment started here", "Red", 0))

\* The `while depth > 0` loop of the block comment.
RECURSIVE block_loop(_, _, _)
block_loop(L, depth, start) ==
    IF depth = 0 THEN L
    ELSE IF current(L) = None
    THEN push_report(L, UnterminatedReport(L, start))
    ELSE IF current(L) = "/" /\ peek(L, 1) = "*"
    THEN block_loop(advance(L), depth + 1, start)
    ELSE IF current(L) = "*" /\ peek(L, 1) = "/"
    THEN block_loop(advance(advance(advance(L))), depth - 1, start)
    ELSE block_loop(advance(L), depth, start)

block_comment(L, start) == block_loop(advance(L), 1, start)

UnexpectedCharacterReport(L) ==
    LET sp == span_at(L.index)
    IN  with_label(
            ErrorReport_new("UnexpectedCharacter", sp, "'" \o current(L) \o "'"),
            Label_new(sp, "Not a valid character.", "Red", 0))

lex_unexpected(L) == advance(push_report(L, UnexpectedCharacterReport(L)))

(***************************************************************************)
(* The state machine.                                                      *)
(***************************************************************************)
\* The place of a span that is not there (an Option<Span> that is None).
NoSpan == [none |-> TRUE]

\* No call of Span::extend is under way.
SpanIdle == span_a = NoSpan /\ span_b = NoSpan /\ span_out = NoSpan

\* No Parser has been constructed; off: none will be.
ParserUnbuilt(off) ==
    parser = [pc |-> IF off THEN "off" ELSE "unbuilt", current |-> 0,
              had_error |-> FALSE, result |-> [some |-> FALSE]]

\* The lexer is run on its own, outside the driver.
DriverOff ==
    driver = [pc |-> "off", level |-> None, code |-> None, exit_code |-> None,
              interpreted |-> FALSE, rendered |-> <<>>, stderr |-> <<>>]

\* Lexer::new on a source text.
LexerNew(inputs) ==
    /\ source \in inputs
    /\ index = 0
    /\ had_error = FALSE
    /\ tokens = <<>>
    /\ reports = <<>>
    /\ pc = "lexing"

Init ==
    /\ LexerNew(Inputs)
    /\ SpanIdle
    /\ ParserUnbuilt(TRUE)
    /\ DriverOff

\* The lexer object after a step becomes the state.
Commit(L) ==
    /\ index' = L.index
    /\ had_error' = L.had_error
    /\ tokens' = L.tokens
    /\ reports' = L.reports
    /\ pc' = IF L.panicked THEN "panicked" ELSE pc
    /\ UNCHANGED <<source, beside_lexer>>

Scanning == pc = "lexing" /\ current(Self) # None

Whitespace ==
    /\ Scanning
    /\ is_whitespace(current(Self))
    /\ Commit(advance(Self))

Identifier ==
    /\ Scanning
    /\ IsIdentStart(current(Self))
    /\ Commit(lex_identifier(Self, index))

BasedInteger ==
    /\ Scanning
    /\ IsBasePrefix(Self)
    /\ Commit(lex_based(Self, index))

Decimal ==
    /\ Scanning
    /\ current(Self) \in AsciiDigit
    /\ ~IsBasePrefix(Self)
    /\ Commit(lex_decimal(Self, index))

Period ==
    /\ Scanning
    /\ current(Self) = "."
    /\ Commit(lex_period(Self, index))

LineComment ==
    /\ Scanning
    /\ current(Self) = "/"
    /\ peek(Self, 1) = "/"
    /\ Commit(line_comment(Self))

BlockComment ==
    /\ Scanning
    /\ current(Self) = "/"
    /\ peek(Self, 1) = "*"
    /\ Commit(block_comment(Self, index))

Slash ==
    /\ Scanning
    /\ current(Self) = "/"
    /\ peek(Self, 1) \notin {"/", "*"}
    /\ Commit(push_simple(Self, "Slash", 1))

SemiColon ==
    /\ Scanning
    /\ current(Self) = ";"
    /\ Commit(push_simple(Self, "SemiColon", 1))

Equals ==
    /\ Scanning
    /\ current(Self) = "="
    /\ Commit(push_simple(Self, "Equals", 1))

IsOther(c) ==
    /\ ~is_whitespace(c)
    /\ ~IsIdentStart(c)
    /\ c \notin AsciiDigit \cup {".", "/", ";", "="}

UnexpectedCharacter ==
    /\ Scanning
    /\ IsOther(current(Self))
    /\ Commit(lex_unexpected(Self))

\* The loop has ended: self.push_simple(TokenKind::EOF, 0), and lex_tokens
\* returns.
PushEOF ==
    /\ pc = "lexing"
    /\ current(Self) = None
    /\ LET L == push_simple(Self, "EOF", 0)
       IN  /\ index' = L.index
           /\ had_error' = L.had_error
           /\ tokens' = L.tokens
           /\ reports' = L.reports
           /\ pc' = IF L.panicked THEN "panicked" ELSE "done"
           /\ UNCHANGED <<source, beside_lexer>>

Next ==
    \/ Whitespace
    \/ Identifier
    \/ BasedInteger
    \/ Decimal
    \/ Period
    \/ LineComment
    \/ BlockComment
    \/ Slash
    \/ SemiColon
    \/ Equals
    \/ UnexpectedCharacter
    \/ PushEOF

Spec == Init /\ [][Next]_vars

(***************************************************************************)
(* Vocabulary of the properties: the lexical grammar as the specification  *)
(* words it, written over the source text alone.                           *)
(***************************************************************************)
Done == pc = "done"

IsAscii(s) == \A i \in DOMAIN s : len_utf8(s[i]) = 1

Kinds(toks) == [i \in DOMAIN toks |-> toks[i].kind]

AsciiAlnum == AsciiLower \cup AsciiUpper \cup AsciiDigit

\* The end of a line comment that starts at i: the index of the next
\* newline, or the end of input.
RECURSIVE RefLineEnd(_)
RefLineEnd(i) ==
    IF i < Len(source) /\ CharAt(i) # "\n" THEN RefLineEnd(i + 1) ELSE i

\* The index after the `*/` that brings the nesting depth to zero, scanning
\* from i at the given depth; -1 when end of input comes first.  An opener
\* and a closer are two characters each and share no character.
RECURSIVE RefBlockEnd(_, _)
RefBlockEnd(i, depth) ==
    IF depth = 0 THEN i
    ELSE IF i >= Len(source) THEN -1
    ELSE IF CharAt(i) = "/" /\ CharAt(i + 1) = "*" THEN RefBlockEnd(i + 2, depth + 1)
    ELSE IF CharAt(i) = "*" /\ CharAt(i + 1) = "/" THEN RefBlockEnd(i + 2, depth - 1)
    ELSE RefBlockEnd(i + 1, depth)

\* From i on, the source is whitespace, line comments and properly nested
\* block comments only.
RECURSIVE RefTrivia(_)
RefTrivia(i) ==
    IF i >= Len(source) THEN TRUE
    ELSE IF is_whitespace(CharAt(i)) THEN RefTrivia(i + 1)
    ELSE IF CharAt(i) = "/" /\ CharAt(i + 1) = "/" THEN RefTrivia(RefLineEnd(i))
    ELSE IF CharAt(i) = "/" /\ CharAt(i + 1) = "*"
    THEN LET e == RefBlockEnd(i + 2, 1) IN e # -1 /\ RefTrivia(e)
    ELSE FALSE

\* The indices, from i on, of the characters that lie inside a comment.
RECURSIVE RefCommentChars(_)
RefCommentChars(i) ==
    IF i >= Len(source) THEN {}
    ELSE IF CharAt(i) = "/" /\ CharAt(i + 1) = "/"
    THEN i..(RefLineEnd(i) - 1) \cup RefCommentChars(RefLineEnd(i))
    ELSE IF CharAt(i) = "/" /\ CharAt(i + 1) = "*"
    THEN LET e == RefBlockEnd(i + 2, 1)
         IN  IF e = -1 THEN i..(Len(source) - 1)
             ELSE i..(e - 1) \cup RefCommentChars(e)
    ELSE RefCommentChars(i + 1)

\* The index of the `/*` of the block comment that end of input leaves
\* open, scanning from i; -1 when every block comment is closed.
RECURSIVE RefUnterminated(_)
RefUnterminated(i) ==
    IF i >= Len(source) THEN -1
    ELSE IF CharAt(i) = "/" /\ CharAt(i + 1) = "/" THEN RefUnterminated(RefLineEnd(i))
    ELSE IF CharAt(i) = "/" /\ CharAt(i + 1) = "*"
    THEN LET e == RefBlockEnd(i + 2, 1)
         IN  IF e = -1 THEN i ELSE RefUnterminated(e)
    ELSE RefUnterminated(i + 1)

\* A character that can start no token and is not whitespace.
CannotStartToken(c) ==
    /\ c # None
    /\ ~is_whitespace(c)
    /\ c \notin AsciiAlnum \cup {"_", ".", "/", ";", "="}

ValidDigits(base) ==
    CASE base = "Bin" -> {"0", "1"}
      [] base = "Oct" -> {"0", "1", "2", "3", "4", "5", "6", "7"}
      [] base = "Dec" -> AsciiDigit
      [] base = "Hex" -> AsciiDigit \cup {"a", "b", "c", "d", "e", "f"}
                                    \cup {"A", "B", "C", "D", "E", "F"}

\* The index of the first character at or after i that is neither a digit
\* of the base nor a separator.
RECURSIVE RefBodyEnd(_, _)
RefBodyEnd(i, base) ==
    IF i < Len(source) /\ CharAt(i) \in ValidDigits(base) \cup {"_"}
    THEN RefBodyEnd(i + 1, base)
    ELSE i

RefBodyBad(i, base) == CharAt(RefBodyEnd(i, base)) \in AsciiAlnum

\* The lexeme that starts at i is numeric and its integer body (or, for a
\* float, its fractional body) runs into an alphanumeric character that is
\* no digit of its base.
RefBadInteger(i) ==
    LET c == CharAt(i)
        n == CharAt(i + 1)
    IN  IF c = "0" /\ n \in {"b", "o", "x"}
        THEN RefBodyBad(i + 2, base_of(n))
        ELSE IF c \in AsciiDigit
        THEN \/ RefBodyBad(i, "Dec")
             \/ /\ CharAt(RefBodyEnd(i, "Dec")) = "."
                /\ RefBodyBad(RefBodyEnd(i, "Dec") + 1, "Dec")
        ELSE IF c = "." /\ n \in AsciiDigit
        THEN RefBodyBad(i + 1, "Dec")
        ELSE FALSE

IsIdentRun(s) ==
    /\ Len(s) >= 1
    /\ s[1] \in AsciiLower \cup AsciiUpper \cup {"_"}
    /\ \A i \in DOMAIN s : s[i] \in AsciiAlnum \cup {"_"}

\* digits `.` digits `.` digits
IsDoubleDotRun(s) ==
    \E i, j \in DOMAIN s :
        /\ 1 < i /\ i + 1 < j /\ j < Len(s)
        /\ s[i] = "." /\ s[j] = "."
        /\ \A k \in DOMAIN s \ {i, j} : s[k] \in AsciiDigit

InvalidIntegerReports ==
    {k \in DOMAIN reports : reports[k].message = "Invalid Integer Literal"}

(***************************************************************************)
(* Properties.                                                             *)
(***************************************************************************)

\* C1: when lex_tokens has returned, the token sequence holds exactly one
\* EOF token, it is the last one, and its span is (n, n), n the number of
\* characters of the source.
C1_ExactlyOneEOF ==
    /\ Done =>
        /\ tokens # <<>>
        /\ Cardinality({i \in DOMAIN tokens : tokens[i].kind = "EOF"}) = 1
        /\ tokens[Len(tokens)].kind = "EOF"
        /\ tokens[Len(tokens)].span = [start |-> Len(source), end |-> Len(source)]
    /\ ~Done => \A i \in DOMAIN tokens : tokens[i].kind # "EOF"

C1_Witness ==
    /\ Done
    /\ Len(tokens) >= 3
    /\ \E i \in DOMAIN source : len_utf8(source[i]) = 2

\* C2: lex_tokens never aborts, whatever the source text, multi-byte
\* characters included.
C2_NeverAborts == pc # "panicked"

\* C3: for a source of whitespace, line comments and properly nested block
\* comments only, the tokens are EOF alone, no diagnostic is appended and
\* had_error is false.
C3_TriviaOnlyEOF ==
    (Done /\ RefTrivia(0)) =>
        /\ Kinds(tokens) = <<"EOF">>
        /\ reports = <<>>
        /\ had_error = FALSE

C5_OneDiagnosticPerBadCharacter ==
    (Done /\ IsAscii(source)) =>
        /\ \A i \in 0..(Len(source) - 1) :
              (CannotStartToken(CharAt(i)) /\ i \notin RefCommentChars(0)) =>
                  Cardinality({k \in DOMAIN reports :
                      /\ reports[k].kind = "UnexpectedCharacter"
                      /\ reports[k].span = [start |-> i, end |-> i]}) = 1
        /\ tokens[Len(tokens)].kind = "EOF"

\* C6: a dispatch step on a numeric lexeme whose integer body meets an
\* ASCII alphanumeric character that is no digit of the base appends
\* exactly one diagnostic, a SyntaxError "Invalid Integer Literal" with
\* exactly two labels, and pushes no token.
C6_InvalidIntegerOneDiagnostic ==
    [][(pc = "lexing" /\ RefBadInteger(index)) =>
          /\ Len(reports') = Len(reports) + 1
          /\ SubSeq(reports', 1, Len(reports)) = reports
          /\ reports'[Len(reports')].kind = "SyntaxError"
          /\ reports'[Len(reports')].message = "Invalid Integer Literal"
          /\ Len(reports'[Len(reports')].labels) = 2
          /\ tokens' = tokens]_vars

C6_Witness ==
    \E k \in InvalidIntegerReports :
        /\ CharAt(reports[k].span.start) = "0"
        /\ CharAt(reports[k].span.start + 1) = "b"
        /\ reports[k].span.end > reports[k].span.start + 2
        /\ Len(reports[k].labels) = 2

\* C7 as claimed: after an invalid-integer-literal failure the offending
\* character is part of no emitted token; for `0b012` the tokens are EOF
\* alone.
C7_OffendingCharacterDropped ==
    Done =>
        /\ \A k \in InvalidIntegerReports :
              \A t \in DOMAIN tokens :
                  tokens[t].span.start # reports[k].labels[2].span.start
        /\ source = <<"0", "b", "0", "1", "2">> => Kinds(tokens) = <<"EOF">>

\* C7 as amended: after an invalid-integer-literal failure scanning resumes
\* at the offending character: the next dispatch starts there, so a token or
\* a later diagnostic starts at it; for `0b012` the tokens are
\* IntegerLiteralDec "2" and EOF, with one diagnostic.
C7_ResumesAtOffendingCharacter ==
    Done =>
        /\ \A k \in InvalidIntegerReports :
              LET j == reports[k].labels[2].span.start
              IN  \/ \E t \in DOMAIN tokens :
                        tokens[t].span.start = j /\ tokens[t].kind # "EOF"
                  \/ \E m \in DOMAIN reports : m > k /\ reports[m].span.start = j
        /\ source = <<"0", "b", "0", "1", "2">> =>
              /\ Kinds(tokens) = <<"IntegerLiteralDec", "EOF">>
              /\ tokens[1].text = "2"
              /\ Len(reports) = 1

C7_Witness ==
    /\ Done
    /\ source = <<"0", "b", "0", "1", "2">>
    /\ InvalidIntegerReports = {1}
    /\ reports[1].labels[2].span.start = 4

\* C8: for a source of the form digits `.` digits `.` digits the lexer
\* appends exactly one diagnostic, the SyntaxError of the second fractional
\* indicator, and emits no FloatLiteral token.
C8_DoubleDotNoFloat ==
    (Done /\ IsDoubleDotRun(source)) =>
        /\ Len(reports) = 1
        /\ reports[1].kind = "SyntaxError"
        /\ reports[1].labels[1].message = "Second fractional indicator"
        /\ \A t \in DOMAIN tokens : tokens[t].kind # "FloatLiteral"

\* C9: when end of input leaves a block comment open, the lexer appends
\* exactly one SyntaxError diagnostic, whose primary span starts at the
\* opening `/*`, sets had_error, emits no token for the comment and still
\* appends EOF.
C9_UnterminatedComment ==
    (Done /\ RefUnterminated(0) # -1) =>
        /\ Cardinality({k \in DOMAIN reports :
              reports[k].message = "Unterminated Multi-Line Comment"}) = 1
        /\ \A k \in DOMAIN reports :
              reports[k].message = "Unterminated Multi-Line Comment" =>
                  /\ reports[k].kind = "SyntaxError"
                  /\ reports[k].span.start = RefUnterminated(0)
        /\ had_error
        /\ \A t \in DOMAIN tokens :
              tokens[t].span.start >= RefUnterminated(0) => tokens[t].kind = "EOF"
        /\ tokens[Len(tokens)].kind = "EOF"

\* C10: a source that is one run [A-Za-z_][A-Za-z0-9_]* lexes, without
\* abort or diagnostic, to one token and EOF; the token's text is the whole
\* run, its span (0, length - 1), its kind Let exactly when the text is
\* `let` and Identifier otherwise.
C10_SingleIdentifier ==
    IsIdentRun(source) =>
        /\ pc # "panicked"
        /\ reports = <<>>
        /\ Done =>
              /\ Kinds(tokens) =
                    <<IF source = <<"l", "e", "t">> THEN "Let" ELSE "Identifier", "EOF">>
              /\ tokens[1].text = Concat(source)
              /\ tokens[1].span = [start |-> 0, end |-> Len(source) - 1]

C10_Witness ==
    /\ Done
    /\ source = <<"l", "e", "t", "x">>
    /\ tokens[1].kind = "Identifier"

(***************************************************************************)
(* Vocabulary of the literal properties.                                   *)
(***************************************************************************)
\* The characters of s that are no `_`, in order, as one text.
RECURSIVE StripSeparators(_)
StripSeparators(s) ==
    IF s = <<>> THEN ""
    ELSE IF Head(s) = "_" THEN StripSeparators(Tail(s))
    ELSE Head(s) \o StripSeparators(Tail(s))

IsDecimalLiteral(s) ==
    /\ Len(s) >= 1
    /\ s[1] \in AsciiDigit
    /\ \A i \in DOMAIN s : s[i] \in AsciiDigit \cup {"_"}

IsBasedLiteral(s) ==
    /\ Len(s) >= 3
    /\ s[1] = "0"
    /\ s[2] \in {"b", "o", "x"}
    /\ \A i \in 3..Len(s) : s[i] \in ValidDigits(base_of(s[2])) \cup {"_"}
    /\ \E i \in 3..Len(s) : s[i] # "_"

RefLiteralKind(s) ==
    IF IsDecimalLiteral(s) THEN "IntegerLiteralDec"
    ELSE CASE s[2] = "b" -> "IntegerLiteralBin"
           [] s[2] = "o" -> "IntegerLiteralOct"
           [] s[2] = "x" -> "IntegerLiteralHex"

RefLiteralText(s) ==
    IF IsDecimalLiteral(s) THEN StripSeparators(s)
    ELSE StripSeparators(SubSeq(s, 3, Len(s)))

\* digits `.` digits, or `.` digits
IsFloatLiteral(s) ==
    \E i \in DOMAIN s :
        /\ s[i] = "."
        /\ i < Len(s)
        /\ \A k \in DOMAIN s \ {i} : s[k] \in AsciiDigit

LetStatement == <<"l", "e", "t", " ", "x", " ", "=", " ", "5", ";">>

\* C11: a source that is one valid integer literal (decimal digits, or
\* 0b/0o/0x and at least one digit of that base, `_` separators allowed
\* after the first character) lexes, without abort or diagnostic, to one
\* token of the kind of its base and EOF; the token's text is the digits in
\* order, prefix and underscores removed.
C11_ValidIntegerLiteral ==
    (IsDecimalLiteral(source) \/ IsBasedLiteral(source)) =>
        /\ pc # "panicked"
        /\ reports = <<>>
        /\ Done =>
              /\ Kinds(tokens) = <<RefLiteralKind(source), "EOF">>
              /\ tokens[1].text = RefLiteralText(source)

C11_Witness ==
    /\ Done
    /\ source = <<"0", "x", "1", "F">>
    /\ tokens[1].kind = "IntegerLiteralHex"
    /\ tokens[1].text = "1F"

\* C12: a source of the form digits `.` digits or `.` digits lexes, without
\* abort or diagnostic, to one FloatLiteral token and EOF; the token's text
\* is the source text.
C12_ValidFloatLiteral ==
    IsFloatLiteral(source) =>
        /\ pc # "panicked"
        /\ reports = <<>>
        /\ Done =>
              /\ Kinds(tokens) = <<"FloatLiteral", "EOF">>
              /\ tokens[1].text = Concat(source)

C12_Witness ==
    /\ Done
    /\ source = <<"1", "2", ".", "5">>
    /\ tokens[1].kind = "FloatLiteral"
    /\ tokens[1].text = "12.5"

\* C13: every step keeps the tokens already pushed, as they are and in
\* place, and leaves the span starts strictly increasing along the token
\* sequence; `let x = 5;` ends with exactly Let, Identifier "x", Equals,
\* IntegerLiteralDec "5", SemiColon, EOF and no diagnostic.
C13_TokensInSourceOrder ==
    [][/\ Len(tokens') >= Len(tokens)
       /\ SubSeq(tokens', 1, Len(tokens)) = tokens
       /\ \A i \in 1..(Len(tokens') - 1) :
             tokens'[i].span.start < tokens'[i + 1].span.start
       /\ (pc' = "done" /\ source = LetStatement) =>
             /\ Kinds(tokens') = <<"Let", "Identifier", "Equals",
                                   "IntegerLiteralDec", "SemiColon", "EOF">>
             /\ tokens'[2].text = "x"
             /\ tokens'[4].text = "5"
             /\ reports' = <<>>]_vars

C13_Witness ==
    /\ Done
    /\ source = LetStatement
    /\ Len(tokens) = 6

\* C14: every step of the lexer appends at most one diagnostic, keeps the
\* diagnostics already in the sink as they are and in place, and leaves
\* the starts of the primary spans strictly increasing along the sink.
C14_ReportsInSourceOrder ==
    [][/\ Len(reports') \in {Len(reports), Len(reports) + 1}
       /\ SubSeq(reports', 1, Len(reports)) = reports
       /\ \A i \in 1..(Len(reports') - 1) :
             reports'[i].span.start < reports'[i + 1].span.start]_vars

C14_Witness ==
    /\ Done
    /\ Len(reports) >= 3
    /\ \E i, j \in DOMAIN reports : reports[i].kind # reports[j].kind

\* C19: the cursor never moves back and never passes the character count,
\* every iteration of the dispatch loop moves it forward, and the lexer
\* leaves the loop only by appending EOF.
C19_ProgressToEOF ==
    [][/\ index' >= index
       /\ index' <= Len(source)
       /\ Scanning => (index' > index /\ pc' = "lexing")
       /\ (pc = "lexing" /\ ~Scanning) =>
             (pc' = "done" /\ tokens'[Len(tokens')].kind = "EOF")]_vars

\* C20: a step that pushes a token other than EOF gives it the span from
\* the first character of its lexeme to the last character consumed for
\* it: start is the cursor before the step, end the cursor after it less
\* one.
C20_InclusiveEndSpans ==
    [][(Len(tokens') = Len(tokens) + 1 /\ tokens'[Len(tokens')].kind # "EOF") =>
          /\ tokens'[Len(tokens')].span.start = index
          /\ tokens'[Len(tokens')].span.end = index' - 1]_vars

\* C21: a step that lexes a block comment whose nesting depth returns to
\* zero leaves the cursor at the character right after the matching `*/`:
\* nothing beyond the closer is consumed.
C21_CursorAfterCloser ==
    [][(/\ Scanning
        /\ current(Self) = "/"
        /\ peek(Self, 1) = "*"
        /\ RefBlockEnd(index + 2, 1) # -1) =>
          index' = RefBlockEnd(index + 2, 1)]_vars

IntegerKinds ==
    {"IntegerLiteralBin", "IntegerLiteralOct", "IntegerLiteralDec", "IntegerLiteralHex"}

BaseOfKind(kind) ==
    CASE kind = "IntegerLiteralBin" -> "Bin"
      [] kind = "IntegerLiteralOct" -> "Oct"
      [] kind = "IntegerLiteralDec" -> "Dec"
      [] kind = "IntegerLiteralHex" -> "Hex"

\* C23: every integer-literal token has a non-empty text, and its lexeme
\* holds, after the prefix if it has one, at least one digit of its base.
C23_IntegerTextNonEmpty ==
    \A k \in DOMAIN tokens :
        tokens[k].kind \in IntegerKinds =>
            LET t    == tokens[k]
                base == BaseOfKind(t.kind)
                from == IF base = "Dec" THEN t.span.start ELSE t.span.start + 2
            IN  /\ t.text # ""
                /\ \E i \in from..(t.span.end - 1) : CharAt(i) \in ValidDigits(base)

(***************************************************************************)
(* Span::extend (src/src/span.rs), applied to two spans of one source.     *)
(***************************************************************************)
MaxOffset == 3

\* The spans with start <= end, as Span::new's callers build them.
Spans == {Span_new(s, e) : s, e \in 0..MaxOffset}

WellFormedSpans == {sp \in Spans : sp.start <= sp.end}

Span_extend(self, other) == [start |-> self.start, end |-> other.end]

SpanInit ==
    /\ span_a \in WellFormedSpans
    /\ span_b \in WellFormedSpans
    /\ span_out = NoSpan
    /\ source = <<>> /\ index = 0 /\ had_error = FALSE
    /\ tokens = <<>> /\ reports = <<>> /\ pc = "off"
    /\ ParserUnbuilt(TRUE)
    /\ DriverOff

\* a.extend(b)
Extend ==
    /\ span_a # NoSpan
    /\ span_out = NoSpan
    /\ span_out' = Span_extend(span_a, span_b)
    /\ UNCHANGED <<lexer_vars, span_a, span_b, parser, driver>>

SpanNext == Extend

SpecSpan == SpanInit /\ [][SpanNext]_vars

Min(x, y) == IF x <= y THEN x ELSE y

Max(x, y) == IF x >= y THEN x ELSE y

\* C15: for spans a and b with start <= end, a.extend(b) is the enclosing
\* range: start = min(a.start, b.start), end = max(a.end, b.end), and so
\* start <= end.
C15_ExtendEncloses ==
    span_out # NoSpan =>
        /\ span_out.start = Min(span_a.start, span_b.start)
        /\ span_out.end = Max(span_a.end, span_b.end)
        /\ span_out.start <= span_out.end

(***************************************************************************)
(* The Parser (src/src/parser.rs), on a token sequence that ends in EOF    *)
(* and a sink that may already hold a diagnostic.  P is the parser object: *)
(* [current, had_error, reports, panicked]; current is the place in        *)
(* tokens of self.current, and the iterator self.tokens stands right       *)
(* after it.                                                               *)
(***************************************************************************)
MaxTokens == 2

TokenKinds ==
    {"Period", "Slash", "Equals", "SemiColon", "Let", "Identifier", "StringLiteral",
     "IntegerLiteralBin", "IntegerLiteralHex", "IntegerLiteralOct", "IntegerLiteralDec",
     "FloatLiteral", "EOF"}

\* The token sequences with the given kinds, one character each.
TokensOfKinds(kinds) ==
    [i \in DOMAIN kinds |-> Token_new(kinds[i], Span_new(i - 1, i - 1), "s")]

TokenSeqs ==
    {TokensOfKinds(Append(k, "EOF")) : k \in SeqsUpTo(TokenKinds, MaxTokens)}

Sinks ==
    {<<>>,
     <<ErrorReport_new("UnexpectedCharacter", Span_location(0), "'@'")>>}

\* Parser::new: self.current is the first token, and there must be one.
Parser_new(toks, sink) ==
    [current |-> 1, had_error |-> FALSE, reports |-> sink, panicked |-> toks = <<>>]

Parser_push_report(P, report) ==
    [P EXCEPT !.had_error = TRUE, !.reports = Append(@, report)]

Parser_advance(P) ==
    IF P.current < Len(tokens)
    THEN [P EXCEPT !.current = @ + 1]
    ELSE [P EXCEPT !.panicked = TRUE]

AST_new(sp, kind, value) == [span |-> sp, kind |-> kind, value |-> value]

\* parse_atom without its EOF arm.
parse_atom_no_eof_arm(P) ==
    LET tok == tokens[P.current]
    IN  IF tok.kind = "StringLiteral"
        THEN [P |-> Parser_advance(P), ok |-> TRUE,
              node |-> AST_new(tok.span, "StringLiteral", tok.text)]
        ELSE [P |-> P, ok |-> FALSE,
              err |-> with_label(
                          ErrorReport_new("UnexpectedToken", tok.span, tok.kind),
                          Label_new(tok.span, None, "Red", 0))]

\* The result: [P, ok, node] for Ok(node), [P, ok, err] for Err(err).
parse_atom(P) ==
    LET tok == tokens[P.current]
    IN  IF tok.kind = "StringLiteral"
        THEN [P |-> Parser_advance(P), ok |-> TRUE,
              node |-> AST_new(tok.span, "StringLiteral", tok.text)]
        ELSE IF tok.kind = "EOF"
        THEN [P |-> P, ok |-> FALSE,
              err |-> ErrorReport_new("Custom", tok.span, "Unexpected EOF")]
        ELSE [P |-> P, ok |-> FALSE,
              err |-> with_label(
                          ErrorReport_new("UnexpectedToken", tok.span, tok.kind),
                          Label_new(tok.span, None, "Red", 0))]

\* The result: [P, result], result.some = FALSE for None.
Parser_parse(P) ==
    LET r == parse_atom(P)
    IN  IF r.ok
        THEN [P |-> r.P, result |-> [some |-> TRUE, node |-> r.node]]
        ELSE [P |-> Parser_push_report(r.P, r.err), result |-> [some |-> FALSE]]

\* The parser object of the state.
ParserSelf ==
    [current |-> parser.current, had_error |-> parser.had_error,
     reports |-> reports, panicked |-> FALSE]

ParserInit ==
    /\ tokens \in TokenSeqs
    /\ reports \in Sinks
    /\ source = <<>> /\ index = 0 /\ had_error = FALSE /\ pc = "off"
    /\ SpanIdle
    /\ ParserUnbuilt(FALSE)
    /\ DriverOff

\* Parser::new(&tokens, reports)
ParserNew ==
    /\ parser.pc = "unbuilt"
    /\ LET P == Parser_new(tokens, reports)
       IN  parser' = [pc |-> IF P.panicked THEN "panicked" ELSE "ready",
                      current |-> P.current, had_error |-> P.had_error,
                      result |-> [some |-> FALSE]]
    /\ UNCHANGED <<lexer_vars, span_a, span_b, span_out, driver>>

\* parser.parse()
Parse ==
    /\ parser.pc = "ready"
    /\ LET r == Parser_parse(ParserSelf)
       IN  /\ parser' = [pc |-> IF r.P.panicked THEN "panicked" ELSE "parsed",
                         current |-> r.P.current, had_error |-> r.P.had_error,
                         result |-> r.result]
           /\ reports' = r.P.reports
    /\ UNCHANGED <<source, index, had_error, tokens, pc, span_a, span_b, span_out, driver>>

ParserNext == ParserNew \/ Parse

SpecParser == ParserInit /\ [][ParserNext]_vars

\* C16: on a token sequence that ends in EOF, parse at a StringLiteral
\* returns a node, one token further, with the sink and had_error as they
\* were; at any other token it returns nothing, sets had_error and appends
\* exactly one diagnostic: at EOF a Custom "Unexpected EOF" without labels,
\* otherwise an UnexpectedToken with one label, at the token's span.
C16_ParseOneDiagnostic ==
    [][parser.pc = "ready" =>
          LET tok == tokens[parser.current]
              new == reports'[Len(reports')]
          IN  /\ parser'.pc = "parsed"
              /\ IF tok.kind = "StringLiteral"
                 THEN /\ parser'.result.some
                      /\ parser'.result.node.span = tok.span
                      /\ parser'.current = parser.current + 1
                      /\ parser'.had_error = parser.had_error
                      /\ reports' = reports
                 ELSE /\ ~parser'.result.some
                      /\ parser'.had_error
                      /\ Len(reports') = Len(reports) + 1
                      /\ SubSeq(reports', 1, Len(reports)) = reports
                      /\ new.span = tok.span
                      /\ IF tok.kind = "EOF"
                         THEN /\ new.kind = "Custom"
                              /\ new.title = "Unexpected EOF"
                              /\ new.labels = <<>>
                         ELSE /\ new.kind = "UnexpectedToken"
                              /\ Len(new.labels) = 1
                              /\ new.labels[1].span = tok.span]_vars

C16_Witness ==
    /\ parser.pc = "parsed"
    /\ ~parser.result.some
    /\ parser.had_error
    /\ Len(tokens) = 1
    /\ Len(reports) = 2
    /\ reports[2].title = "Unexpected EOF"

(***************************************************************************)
(* The driver (src/src/main.rs): main reads the file, interpret runs the   *)
(* lexer and then the parser, main prints the reports and exits.  The      *)
(* debug flag only prints tokens and the tree to stdout and is left out.   *)
(* stderr is the sequence of what has been written to it: a rendered       *)
(* report, the summary line, or the message of a panic.                    *)
(***************************************************************************)
MaxDriverLen == 2

ExitLexError == 64

ExitParseError == 69

Levels == {"Silent", "Compact", "Normal", "Debug"}

DriverInputs == SeqsUpTo(Alphabet, MaxDriverLen) \cup Examples

\* ErrorReport::to_ariadne_report; no report of this program carries debug
\* labels or a note.
to_ariadne_report(report, level) ==
    CASE level = "Silent"  -> [unreachable |-> TRUE]
      [] level = "Compact" -> [message |-> report.title, labels |-> <<>>, compact |-> TRUE]
      [] level = "Normal"  -> [message |-> report.title, labels |-> report.labels,
                               compact |-> FALSE]
      [] level = "Debug"   -> [message |-> report.title, labels |-> report.labels \o <<>>,
                               compact |-> FALSE]

SummaryLine(n) ==
    IF n = 1 THEN <<[what |-> "summary", text |-> "Emitted 1 error."]>>
    ELSE IF n > 0
    THEN <<[what |-> "summary", text |-> "Emitted " \o ToString(n) \o " errors."]>>
    ELSE <<>>

\* print_reports with the summary written at every level.
print_reports_summary_always(level, reps) ==
    LET silent == level = "Silent"
    IN  [rendered |-> IF silent THEN <<>> ELSE [i \in DOMAIN reps |-> level],
         stderr   |->
            (IF silent THEN <<>>
             ELSE [i \in DOMAIN reps |->
                      [what |-> "report", text |-> to_ariadne_report(reps[i], level)]])
            \o SummaryLine(Len(reps))]

\* The result: the levels to_ariadne_report was called with, and what was
\* written to stderr.
print_reports(level, reps) ==
    LET silent == level = "Silent"
    IN  [rendered |-> IF silent THEN <<>> ELSE [i \in DOMAIN reps |-> level],
         stderr   |->
            (IF silent THEN <<>>
             ELSE [i \in DOMAIN reps |->
                      [what |-> "report", text |-> to_ariadne_report(reps[i], level)]])
            \o (IF silent THEN <<>> ELSE SummaryLine(Len(reps)))]

\* The gate of interpret that lets everything through.
lexer_gate_open(lexer_had_error) == FALSE

\* if lexer.had_error { return 64; }
lexer_gate(lexer_had_error) == lexer_had_error

\* The thread panics: the message goes to stderr and the process ends with
\* the status of a panic.
Panicked(D) ==
    [D EXCEPT !.pc = "exited", !.exit_code = 101,
              !.stderr = Append(@, [what |-> "panic", text |-> "thread 'main' panicked"])]

DriverInit ==
    /\ LexerNew(DriverInputs)
    /\ SpanIdle
    /\ ParserUnbuilt(FALSE)
    /\ driver \in {[pc |-> "lexing", level |-> l, code |-> None, exit_code |-> None,
                    interpreted |-> FALSE, rendered |-> <<>>, stderr |-> <<>>] :
                   l \in Levels}

\* lex_tokens has panicked inside interpret.
LexerPanicked ==
    /\ driver.pc = "lexing"
    /\ pc = "panicked"
    /\ driver' = Panicked(driver)
    /\ UNCHANGED <<lexer_vars, span_a, span_b, span_out, parser>>

\* interpret, after lexer.lex_tokens(): the gate on lexer.had_error.
InterpretLexed ==
    /\ driver.pc = "lexing"
    /\ pc = "done"
    /\ driver' = IF lexer_gate(had_error)
                 THEN [driver EXCEPT !.pc = "returned", !.code = ExitLexError]
                 ELSE [driver EXCEPT !.pc = "parsing"]
    /\ UNCHANGED <<lexer_vars, span_a, span_b, span_out, parser>>

\* interpret, the parser block and what follows it: Parser::new, parse(),
\* return 69 on None or had_error, else the unimplemented!() of the
\* interpretation step.
InterpretParse ==
    /\ driver.pc = "parsing"
    /\ LET P0 == Parser_new(tokens, reports)
           r  == Parser_parse(P0)
       IN  IF P0.panicked
           THEN /\ parser' = [parser EXCEPT !.pc = "panicked"]
                /\ driver' = Panicked(driver)
                /\ UNCHANGED reports
           ELSE /\ parser' = [pc |-> IF r.P.panicked THEN "panicked" ELSE "parsed",
                              current |-> r.P.current, had_error |-> r.P.had_error,
                              result |-> r.result]
                /\ reports' = r.P.reports
                /\ driver' =
                      IF r.P.panicked THEN Panicked(driver)
                      ELSE IF ~r.result.some \/ r.P.had_error
                      THEN [driver EXCEPT !.pc = "returned", !.code = ExitParseError]
                      ELSE Panicked([driver EXCEPT !.interpreted = TRUE])
    /\ UNCHANGED <<source, index, had_error, tokens, pc, span_a, span_b, span_out>>

\* main: if !reports.is_empty() { print_reports(..) }
MainPrint ==
    /\ driver.pc = "returned"
    /\ LET out == IF reports # <<>> THEN print_reports(driver.level, reports)
                  ELSE [rendered |-> <<>>, stderr |-> <<>>]
       IN  driver' =
              IF \E i \in DOMAIN out.rendered : out.rendered[i] = "Silent"
              THEN Panicked([driver EXCEPT !.rendered = @ \o out.rendered])
              ELSE [driver EXCEPT !.pc = "printed",
                                  !.rendered = @ \o out.rendered,
                                  !.stderr = @ \o out.stderr]
    /\ UNCHANGED <<lexer_vars, span_a, span_b, span_out, parser>>

\* main: exit(code)
MainExit ==
    /\ driver.pc = "printed"
    /\ driver' = [driver EXCEPT !.pc = "exited", !.exit_code = driver.code]
    /\ UNCHANGED <<lexer_vars, span_a, span_b, span_out, parser>>

DriverNext ==
    \/ Whitespace
    \/ Identifier
    \/ BasedInteger
    \/ Decimal
    \/ Period
    \/ LineComment
    \/ BlockComment
    \/ Slash
    \/ SemiColon
    \/ Equals
    \/ UnexpectedCharacter
    \/ PushEOF
    \/ LexerPanicked
    \/ InterpretLexed
    \/ InterpretParse
    \/ MainPrint
    \/ MainExit

SpecDriver == DriverInit /\ [][DriverNext]_vars

Exited == driver.pc = "exited"

\* C17: in the driver, no parser is constructed or run after a lexer that
\* ended with had_error, the interpretation step is not reached once a
\* diagnostic has been recorded, and a run that recorded one ends with a
\* non-zero exit code.
C17_StagesGated ==
    /\ parser.pc # "unbuilt" => ~had_error
    /\ driver.interpreted => reports = <<>>
    /\ (driver.pc \in {"returned", "printed"} /\ reports # <<>>) =>
          driver.code \in {ExitLexError, ExitParseError}
    /\ (Exited /\ reports # <<>>) => driver.exit_code # 0

C17_Witness ==
    /\ Exited
    /\ driver.exit_code = ExitParseError
    /\ parser.pc = "parsed"
    /\ parser.had_error
    /\ ~had_error
    /\ Len(tokens) >= 2

\* C18: at the Silent level to_ariadne_report is never called, neither a
\* report nor the summary line is written, however many diagnostics were
\* recorded, and a run that recorded one still ends with a non-zero exit
\* code, the failure code of its stage when nothing panicked.
C18_SilentPrintsNothing ==
    driver.level = "Silent" =>
        /\ driver.rendered = <<>>
        /\ \A i \in DOMAIN driver.stderr :
              driver.stderr[i].what \notin {"report", "summary"}
        /\ (Exited /\ reports # <<>>) =>
              /\ driver.exit_code # 0
              /\ driver.stderr = <<>> =>
                    driver.exit_code = IF had_error THEN ExitLexError ELSE ExitParseError

C18_Witness ==
    /\ Exited
    /\ driver.level = "Silent"
    /\ Len(reports) >= 2
    /\ driver.exit_code = ExitLexError
    /\ driver.stderr = <<>>

\* C22: the lexer never emits a StringLiteral token; so for every source
\* that lexes without error, Parser::parse on the lexer's tokens returns
\* nothing after appending exactly one diagnostic, and the driver never
\* reaches the interpretation step.
C22_NeverInterprets ==
    /\ \A k \in DOMAIN tokens : tokens[k].kind # "StringLiteral"
    /\ ~driver.interpreted
    /\ (Done /\ ~had_error /\ driver.pc \notin {"lexing", "parsing"}) =>
          /\ parser.pc = "parsed"
          /\ ~parser.result.some
          /\ parser.had_error
          /\ Len(reports) = 1
          /\ driver.code = ExitParseError

C22_Witness ==
    /\ Exited
    /\ Done
    /\ ~had_error
    /\ Len(tokens) >= 2
    /\ parser.pc = "parsed"
    /\ ~parser.result.some
    /\ Len(reports) = 1
    /\ reports[1].kind = "UnexpectedToken"
    /\ driver.exit_code = ExitParseError

====
